---- MODULE Spec2Model ----
(***************************************************************************)
(* Model of the GSP sequential-pattern miner (src/GSP.py, src/tree.py).    *)
(*                                                                         *)
(* Items are the naturals 1..MaxItem, standing for item labels in their    *)
(* lexicographic order.  An itemset is a set of items, a pattern a         *)
(* sequence of itemsets, a window a sequence of events <<t, X>> with       *)
(* strictly increasing integer times t, a database a sequence of windows.  *)
(* Optional[int] is modelled as a sequence: <<>> is None, <<w>> is w.      *)
(***************************************************************************)
EXTENDS Integers, Sequences, FiniteSets, TLC

VARIABLES
    pc,             \* position of the modelled call
    seq,            \* contains_with_int_constraints: the window
    pat,            \* contains_with_int_constraints: the pattern
    min_gap,        \* configuration
    max_gap,
    win_size,
    ret,            \* contains_with_int_constraints: the return value
    DB,             \* the database: a sequence of windows
    patterns,       \* count_support_db_int: the list of candidate patterns
    sup,            \* count_support_db_int: the returned support map
    timeline,       \* prepare_db: the aggregated table, one event per data_int
    seq_len,        \* self.seq_len
    seq_step,       \* self.seq_step
    min_sup_pct,    \* self.min_sup_pct
    db_size,        \* run: len(DB)
    min_sup_count,  \* run: the minimum support count
    results,        \* run: results[k][p] is the count of p (support_pct is count / db_size)
    F_prev,         \* run: the frequent list of the previous level
    level_k,        \* run: k, the level being built
    cands,          \* join_step: the returned candidate list; prune_step: Ck
    pruned,         \* prune_step: the returned list
    F_prev_sorted   \* join_step: sorted(F_prev)

containVars == <<seq, pat, ret>>
configVars == <<min_gap, max_gap, win_size>>
countVars == <<DB, patterns, sup>>
runVars == <<timeline, seq_len, seq_step, min_sup_pct, db_size, min_sup_count, results, F_prev, level_k>>

joinVars == <<cands, pruned, F_prev_sorted>>

vars == <<pc, containVars, configVars, countVars, runVars, joinVars>>

----------------------------------------------------------------------------
(* Bounds of the model *)

MaxItem == 2        \* items 1..MaxItem of the containment and counting inputs
MaxRunItem == 3     \* items 1..MaxRunItem of the mined table
MaxTime == 2        \* time indices 0..MaxTime
MaxPatLen == 3      \* patterns of up to MaxPatLen itemsets
MaxGap == 2         \* min_gap, max_gap in 0..MaxGap
MaxPatterns == 2    \* candidate lists of up to MaxPatterns patterns
MaxDbSize == 25     \* database sizes 1..MaxDbSize for the minimum support count
MaxNegPct == 1      \* min_sup_pct in -MaxNegPct..100 for the minimum support count
MaxRows == 3        \* (time, item) rows of the mined table
MaxJoinList == 3    \* previous levels of up to MaxJoinList patterns for join_step
MaxNegWin == 1      \* win_size down to -MaxNegWin for runs under any configuration
MaxOverPct == 1     \* min_sup_pct up to 100 + MaxOverPct for runs under any configuration

Items == 1..MaxItem
Times == 0..MaxTime
Itemsets == (SUBSET Items) \ {{}}
None == <<>>
Some(v) == <<v>>

(* Windows: one optional non-empty itemset per time index, listed in time order *)
RECURSIVE EventsFrom(_, _)
EventsFrom(f, t) ==
    IF t > MaxTime THEN <<>>
    ELSE IF f[t] = {} THEN EventsFrom(f, t + 1)
    ELSE <<(<<t, f[t]>>)>> \o EventsFrom(f, t + 1)

WindowsOver(items) == {EventsFrom(f, 0) : f \in [Times -> SUBSET items]}
Windows == WindowsOver(Items)

Patterns == UNION {[1..n -> Itemsets] : n \in 0..MaxPatLen}

WinSizes == {None} \cup {Some(w) : w \in Times}

----------------------------------------------------------------------------
(* src/tree.py: contains_with_int_constraints *)

(* The concatenation ss[lo] \o ... \o ss[hi], by halves *)
(* body with x standing for the value of e, which is computed once *)
With(e, Body(_)) == CHOOSE r \in {Body(x) : x \in {e}} : TRUE

RECURSIVE FlattenRange(_, _, _)
FlattenRange(ss, lo, hi) ==
    IF lo > hi THEN <<>>
    ELSE IF lo = hi THEN ss[lo]
    ELSE With((lo + hi) \div 2, LAMBDA mid :
             FlattenRange(ss, lo, mid) \o FlattenRange(ss, mid + 1, hi))

Flatten(ss) == FlattenRange(ss, 1, Len(ss))

Range(s) == {s[i] : i \in 1..Len(s)}

(* A list built by a comprehension, as the tuple of its elements *)
List(f) == <<>> \o f

(* matches = [i for i, (_, X) in enumerate(seq) if iset.issubset(X)] *)
Matches(s, iset) ==
    Flatten([i \in 1..Len(s) |-> IF iset \subseteq s[i][2] THEN <<i>> ELSE <<>>])

Positions(s, p) == List([k \in 1..Len(p) |-> Matches(s, p[k])])

(* if dt < min_gap or dt > max_gap: continue *)
GapRejectedLoose(dt, mn, mx) == dt <= mn \/ dt >= mx
GapRejected(dt, mn, mx) == dt < mn \/ dt > mx

(* if win_size is not None and (t - first_t) > win_size: continue *)
WinRejectedLoose(t, first_t, win) == win # None /\ (t - first_t) >= win[1]
WinRejected(t, first_t, win) == win # None /\ (t - first_t) > win[1]

(* dfs(k, prev_idx, first_t, prev_t); j walks positions[k] in list order.  *)
(* k is 1-based: k = Len(p) + 1 is the code's k == len(pat).               *)
RECURSIVE dfs(_, _, _, _, _, _, _, _, _, _)
dfs(s, p, positions, mn, mx, win, k, j, prev_idx, ft_pt) ==
    IF k = Len(p) + 1 THEN TRUE
    ELSE IF j > Len(positions[k]) THEN FALSE
    ELSE LET idx == positions[k][j]
             t == s[idx][1]
             dt == t - ft_pt[2]
             next == dfs(s, p, positions, mn, mx, win, k, j + 1, prev_idx, ft_pt)
         IN  IF idx <= prev_idx THEN next
             ELSE IF GapRejected(dt, mn, mx) THEN next
             ELSE IF WinRejected(t, ft_pt[1], win) THEN next
             ELSE IF dfs(s, p, positions, mn, mx, win, k + 1, 1, idx, <<ft_pt[1], t>>)
                  THEN TRUE
                  ELSE next

(* for start_idx in positions[0]: if dfs(1, start_idx, t0, t0): return True *)
RECURSIVE StartLoop(_, _, _, _, _, _, _)
StartLoop(s, p, positions, mn, mx, win, j) ==
    IF j > Len(positions[1]) THEN FALSE
    ELSE LET start_idx == positions[1][j]
             t0 == s[start_idx][1]
         IN  IF dfs(s, p, positions, mn, mx, win, 2, 1, start_idx, <<t0, t0>>)
             THEN TRUE
             ELSE StartLoop(s, p, positions, mn, mx, win, j + 1)

(* A greedy matcher: takes the first admissible position of every itemset *)
(* and never backtracks.                                                   *)
RECURSIVE GreedyFrom(_, _, _, _, _, _, _, _)
GreedyFrom(s, p, mn, mx, win, k, prev_idx, ft_pt) ==
    IF k = Len(p) + 1 THEN TRUE
    ELSE LET ok == {i \in (prev_idx + 1)..Len(s) :
                      /\ p[k] \subseteq s[i][2]
                      /\ (k > 1 => ~GapRejected(s[i][1] - ft_pt[2], mn, mx))
                      /\ (k > 1 => ~WinRejected(s[i][1], ft_pt[1], win))}
         IN  IF ok = {} THEN FALSE
             ELSE LET idx == CHOOSE i \in ok : \A j \in ok : i <= j
                      t == s[idx][1]
                  IN  GreedyFrom(s, p, mn, mx, win, k + 1, idx,
                                 <<IF k = 1 THEN t ELSE ft_pt[1], t>>)

contains_greedy(s, p, mn, mx, win) ==
    GreedyFrom(s, p, mn, mx, win, 1, 0, <<0, 0>>)

contains_with_int_constraints(s, p, mn, mx, win) ==
    IF Len(p) = 0 THEN TRUE
    ELSE With(Positions(s, p), LAMBDA positions :
             IF \E k \in 1..Len(p) : positions[k] = <<>> THEN FALSE
             ELSE StartLoop(s, p, positions, mn, mx, win, 1))

----------------------------------------------------------------------------
(* The containment contract of the specification, stated independently of  *)
(* the search: an occurrence is a strictly increasing tuple of indices.    *)

IndexTuples(n, m) ==
    {f \in [1..m -> 1..n] : \A i \in 1..m : \A j \in 1..m : i < j => f[i] < f[j]}

IsMatch(s, p, f) == \A k \in 1..Len(p) : p[k] \subseteq s[f[k]][2]

GapsWithin(s, p, f, mn, mx) ==
    \A k \in 1..(Len(p) - 1) :
        LET d == s[f[k + 1]][1] - s[f[k]][1] IN mn <= d /\ d <= mx

Span(s, p, f) == IF Len(p) = 0 THEN 0 ELSE s[f[Len(p)]][1] - s[f[1]][1]

Occurrences(s, p, mn, mx) ==
    {f \in IndexTuples(Len(s), Len(p)) : IsMatch(s, p, f) /\ GapsWithin(s, p, f, mn, mx)}

Occurs(s, p, mn, mx, win) ==
    \E f \in Occurrences(s, p, mn, mx) : win # None => Span(s, p, f) <= win[1]

----------------------------------------------------------------------------
(* src/GSP.py: prepare_db, the sliding windows over the aggregated table    *)
(* times_int / itemsets (one event per data_int, in ascending order).       *)

(* while j < len(times_int) and times_int[j] < end_t: seq.append(...) *)
RECURSIVE WindowFrom(_, _, _)
WindowFrom(tl, j, end_t) ==
    IF j <= Len(tl) /\ tl[j][1] < end_t
    THEN <<tl[j]>> \o WindowFrom(tl, j + 1, end_t)
    ELSE <<>>

(* while i < len(times_int) and times_int[i] < target: i += 1 *)
RECURSIVE SkipTo(_, _, _)
SkipTo(tl, i, target) ==
    IF i <= Len(tl) /\ tl[i][1] < target THEN SkipTo(tl, i + 1, target) ELSE i

RECURSIVE WindowsFrom(_, _, _, _)
WindowsFrom(tl, i, len, step) ==
    IF i > Len(tl) THEN <<>>
    ELSE LET start_t == tl[i][1]
             w == WindowFrom(tl, i, start_t + len)
             rest == WindowsFrom(tl, SkipTo(tl, i, start_t + step), len, step)
         IN  IF w # <<>> THEN <<w>> \o rest ELSE rest

prepare_db(tl, len, step) == WindowsFrom(tl, 1, len, step)

(* The aggregated tables prepare_db can build from at most MaxRows rows of  *)
(* (time, item): data_int counts from the earliest timestamp, so a         *)
(* non-empty table starts at time 0.                                       *)
Rows(tl) == UNION {{<<tl[i][1], x>> : x \in tl[i][2]} : i \in 1..Len(tl)}
TimelinesOver(items) ==
    {w \in WindowsOver(items) :
        /\ w # <<>> => w[1][1] = 0
        /\ Cardinality(Rows(w)) <= MaxRows}
SeqLens == 1..(MaxTime + 1)
SeqSteps == 1..(MaxTime + 1)
Databases ==
    {prepare_db(tl, l, st) : tl \in TimelinesOver(Items), l \in SeqLens, st \in SeqSteps}

----------------------------------------------------------------------------
(* src/tree.py: PatternTrie and count_support_db_int.  Only first_index is  *)
(* read by the counter, so the trie nodes are not modelled.  first_index is *)
(* an insertion-ordered dict: a sequence of <<key, list of patterns>>.      *)

(* list(dict.fromkeys(l)): first-seen order, duplicates removed *)
Dedupe(l) ==
    Flatten([i \in 1..Len(l) |->
                IF \E j \in 1..(i - 1) : l[j] = l[i] THEN <<>> ELSE <<l[i]>>])

(* PatternTrie.insert, called by build for every pattern in turn:          *)
(*   if not pat: return                                                    *)
(*   self.first_index.setdefault(pat[0], []).append(pat)                   *)
(* The keys are the first itemsets of the non-empty patterns in first-seen *)
(* order; a key's list holds every inserted pattern with that first        *)
(* itemset, once per insertion.                                            *)
Inserted(ps) == SelectSeq(ps, LAMBDA p : Len(p) > 0)

build(ps) ==
    With(Inserted(ps), LAMBDA ins :
        With(Dedupe(List([i \in 1..Len(ins) |-> ins[i][1]])), LAMBDA keys :
            List([j \in 1..Len(keys) |->
                    <<keys[j], SelectSeq(ins, LAMBDA p : p[1] = keys[j])>>])))

(* A pre-filter that looks at the first event of the window only *)
AnyEventHasFirst(s, iset) == Len(s) > 0 /\ iset \subseteq s[1][2]
(* any(first_iset.issubset(X) for _, X in seq) *)
AnyEventHas(s, iset) == \E i \in 1..Len(s) : iset \subseteq s[i][2]

(* The increments of the loops                                             *)
(*   for seq in DB: for first_iset, pats in first_index.items():           *)
(*     if not any(...): continue                                           *)
(*     for p in pats: if contains_with_int_constraints(...): sup[p] += 1   *)
(* one per (window, key, list position) that passes both tests.            *)
Increments(db, fi, mn, mx, win) ==
    LET visits == UNION {{<<w, j, i>> : i \in 1..Len(fi[j][2])} :
                            w \in 1..Len(db), j \in 1..Len(fi)}
    IN  {t \in visits :
            /\ AnyEventHas(db[t[1]], fi[t[2]][1])
            /\ contains_with_int_constraints(db[t[1]], fi[t[2]][2][t[3]], mn, mx, win)}

(* sup = {p: 0 for p in patterns}, then the increments *)
count_support_db_int(db, ps, mn, mx, win) ==
    With(build(ps), LAMBDA fi :
        With(Increments(db, fi, mn, mx, win), LAMBDA incs :
            <<>> @@ [p \in Range(ps) |->
                        Cardinality({t \in incs : fi[t[2]][2][t[3]] = p})]))

(* The support of the specification: the number of windows containing p *)
WindowsContaining(db, p, mn, mx, win) ==
    {w \in 1..Len(db) : contains_with_int_constraints(db[w], p, mn, mx, win)}

support_count(db, p, mn, mx, win) == Cardinality(WindowsContaining(db, p, mn, mx, win))

----------------------------------------------------------------------------
(* src/GSP.py: join_step *)

Front(p) == SubSeq(p, 1, Len(p) - 1)
Last(p) == p[Len(p)]
MaxOf(S) == CHOOSE x \in S : \A y \in S : y <= x
MinOf(S) == CHOOSE x \in S : \A y \in S : x <= y

(* Python's < on tuples of frozensets: the first differing position decides, *)
(* by proper subset; with no differing position the shorter tuple is less.   *)
PatternLT(a, b) ==
    LET n == IF Len(a) < Len(b) THEN Len(a) ELSE Len(b)
        diff == {i \in 1..n : a[i] # b[i]}
    IN  IF diff = {} THEN Len(a) < Len(b)
        ELSE LET i == MinOf(diff) IN a[i] \subseteq b[i] /\ a[i] # b[i]

(* sorted(): CPython's list sort on a list shorter than 64 elements is       *)
(* count_run (reversing a strictly descending run) followed by binarysort.   *)
RECURSIVE RunEnd(_, _, _)
RunEnd(l, i, desc) ==
    IF i > Len(l) THEN Len(l)
    ELSE IF PatternLT(l[i], l[i - 1]) = desc THEN RunEnd(l, i + 1, desc)
    ELSE i - 1

RECURSIVE BinSearch(_, _, _, _)
BinSearch(l, pivot, lo, hi) ==
    IF lo >= hi THEN lo
    ELSE With(lo + ((hi - lo) \div 2), LAMBDA p :
             IF PatternLT(pivot, l[p]) THEN BinSearch(l, pivot, lo, p)
             ELSE BinSearch(l, pivot, p + 1, hi))

RECURSIVE BinarySort(_, _)
BinarySort(l, start) ==
    IF start > Len(l) THEN l
    ELSE With(BinSearch(l, l[start], 1, start), LAMBDA pos :
             With(SubSeq(l, 1, pos - 1) \o <<l[start]>> \o SubSeq(l, pos, start - 1)
                      \o SubSeq(l, start + 1, Len(l)),
                  LAMBDA moved : BinarySort(moved, start + 1)))

PySorted(l) ==
    IF Len(l) < 2 THEN l
    ELSE LET desc == PatternLT(l[2], l[1])
             n == RunEnd(l, 3, desc)
             run == IF desc THEN [i \in 1..n |-> l[n + 1 - i]] \o SubSeq(l, n + 1, Len(l))
                    ELSE l
         IN  With(run, LAMBDA r : BinarySort(r, n + 1))

(* An S-step that appends b's last itemset whatever the overlap of a and b *)
SStepAnyPair(a, b) == <<a \o <<Last(b)>>>>
(* S-step: if a[1:] == b[:-1]: cands.append(a + (b[-1],)) *)
SStep(a, b) ==
    IF Tail(a) = Front(b) THEN <<a \o <<Last(b)>>>> ELSE <<>>

(* An I-step that does not ask b to end in a single item *)
IStepAnyLast(a, b) ==
    IF Front(a) = Front(b)
    THEN LET x == MaxOf(Last(b))
         IN  IF x \notin Last(a) /\ x > MaxOf(Last(a))
             THEN <<Front(a) \o <<Last(a) \cup {x}>>>>
             ELSE <<>>
    ELSE <<>>

(* I-step: same head, b ends in a single item x, x not in and above a's last *)
IStep(a, b) ==
    IF Front(a) = Front(b) /\ Cardinality(Last(b)) = 1
    THEN LET x == CHOOSE y \in Last(b) : TRUE
         IN  IF x \notin Last(a) /\ x > MaxOf(Last(a))
             THEN <<Front(a) \o <<Last(a) \cup {x}>>>>
             ELSE <<>>
    ELSE <<>>

(* A loop body in which the I-step is tried only when the S-step adds nothing *)
PairCandsOneRule(a, b) ==
    IF a = b THEN <<>> ELSE IF SStep(a, b) # <<>> THEN SStep(a, b) ELSE IStep(a, b)
(* A loop body without `if a == b: continue` *)
PairCandsWithSelf(a, b) == SStep(a, b) \o IStep(a, b)
PairCands(a, b) == IF a = b THEN <<>> ELSE SStep(a, b) \o IStep(a, b)

(* A double loop in which b runs only over the patterns after a *)
JoinCandsForward(Fs) ==
    LET n == Len(Fs)
    IN  Flatten([q \in 1..(n * n) |->
                    IF ((q - 1) \div n) < ((q - 1) % n)
                    THEN PairCands(Fs[((q - 1) \div n) + 1], Fs[((q - 1) % n) + 1])
                    ELSE <<>>])
(* for a in F_prev_sorted: for b in F_prev_sorted: ... *)
JoinCands(Fs) ==
    LET n == Len(Fs)
    IN  Flatten([q \in 1..(n * n) |->
                    PairCands(Fs[((q - 1) \div n) + 1], Fs[((q - 1) % n) + 1])])

join_step(F) ==
    With(PySorted(F), LAMBDA Fs :
        With(JoinCands(Fs), LAMBDA cs : Dedupe(cs)))

----------------------------------------------------------------------------
(* src/GSP.py: prune_step *)

RemoveAt(c, i) == SubSeq(c, 1, i - 1) \o SubSeq(c, i + 1, Len(c))

(* A rule (A) that removes every itemset whole, multi-item ones included *)
RuleAEveryItemset(c, Fset) == \A i \in 1..Len(c) : RemoveAt(c, i) \in Fset
(* (A) every single-item itemset removed whole *)
RuleA(c, Fset) ==
    \A i \in 1..Len(c) : Cardinality(c[i]) = 1 => RemoveAt(c, i) \in Fset

(* A rule (B) that is content with one removable item per multi-item itemset *)
RuleBSomeItem(c, Fset) ==
    \A i \in 1..Len(c) : Cardinality(c[i]) > 1 =>
        \E x \in c[i] : [c EXCEPT ![i] = @ \ {x}] \in Fset
(* (B) every item of every multi-item itemset removed *)
RuleB(c, Fset) ==
    \A i \in 1..Len(c) : Cardinality(c[i]) > 1 =>
        \A x \in c[i] : [c EXCEPT ![i] = @ \ {x}] \in Fset

(* A pruner that checks only the removal of the first and the last itemset *)
KeepsEndsOnly(c, Fset) ==
    /\ Cardinality(c[1]) = 1 => RemoveAt(c, 1) \in Fset
    /\ Cardinality(Last(c)) = 1 => RemoveAt(c, Len(c)) \in Fset

(* A pruner that applies rule (A) and not rule (B) *)
KeepsRuleAOnly(c, Fset) == RuleA(c, Fset)

Keeps(c, Fset) == RuleA(c, Fset) /\ RuleB(c, Fset)

prune_step(Ck, Fset) == SelectSeq(Ck, LAMBDA c : Keeps(c, Fset))

----------------------------------------------------------------------------
(* src/GSP.py, run: raw = (self.min_sup_pct / 100.0) * db_size in IEEE-754  *)
(* binary64 arithmetic, round-to-nearest-even.  A positive double is        *)
(* <<m, e>>: m the MantissaBits significand bits, most significant first    *)
(* (m[1] = 1), and the value is 0.m[1]m[2]... * 2^e.                         *)

MantissaBits == 53

(* Scale r/d into [1/2, 1): the exponent counts the doublings *)
RECURSIVE Normalise(_, _, _)
Normalise(r, d, e) ==
    IF r >= d THEN Normalise(r, 2 * d, e + 1)
    ELSE IF 2 * r < d THEN Normalise(2 * r, d, e - 1)
    ELSE <<r, d, e>>

(* n further bits of the binary expansion of r/d, and the remainder left; *)
(* the bits are produced in two halves to keep the evaluation shallow.     *)
RECURSIVE DivBits(_, _, _)
DivBits(r, d, n) ==
    IF n = 0 THEN <<<<>>, r>>
    ELSE IF n = 1
    THEN LET b == IF 2 * r >= d THEN 1 ELSE 0 IN <<(<<b>>), 2 * r - b * d>>
    ELSE LET hi == DivBits(r, d, n \div 2)
             lo == DivBits(hi[2], d, n - (n \div 2))
         IN  <<hi[1] \o lo[1], lo[2]>>

(* m + 1 on a bit string; <<bits, carry out>> *)
IncBits(m) ==
    LET zeros == {i \in 1..Len(m) : m[i] = 0}
    IN  IF zeros = {} THEN <<[i \in 1..Len(m) |-> 0], 1>>
        ELSE LET j == CHOOSE i \in zeros : \A z \in zeros : z <= i
             IN  <<[i \in 1..Len(m) |-> IF i < j THEN m[i] ELSE IF i = j THEN 1 ELSE 0], 0>>

(* Round to nearest, ties to even: g is the first dropped bit, sticky tells *)
(* whether anything non-zero follows it.                                    *)
RoundNearestEven(m, e, g, sticky) ==
    IF g = 1 /\ (sticky \/ m[Len(m)] = 1)
    THEN LET inc == IncBits(m)
         IN  IF inc[2] = 1 THEN <<[i \in 1..Len(m) |-> IF i = 1 THEN 1 ELSE 0], e + 1>>
             ELSE <<inc[1], e>>
    ELSE <<m, e>>

(* p / 100.0 for an integer p > 0 *)
FloatDiv(p, d) ==
    LET nm == Normalise(p, d, 0)
        q == DivBits(nm[1], nm[2], MantissaBits)
        g == IF 2 * q[2] >= nm[2] THEN 1 ELSE 0
        sticky == (2 * q[2] - g * nm[2]) > 0
    IN  RoundNearestEven(q[1], nm[3], g, sticky)

(* The exact product of a bit string and a small integer n, as a bit string *)
RECURSIVE BitsOfLsb(_)
BitsOfLsb(c) == IF c = 0 THEN <<>> ELSE <<c % 2>> \o BitsOfLsb(c \div 2)

(* Bits lo..hi of m times n plus the carry coming in from the right:       *)
(* <<product bits, least significant first, carry out>>.                   *)
RECURSIVE MulRange(_, _, _, _, _)
MulRange(m, n, lo, hi, carry) ==
    IF lo > hi THEN <<<<>>, carry>>
    ELSE IF lo = hi
    THEN LET v == m[lo] * n + carry IN <<(<<v % 2>>), v \div 2>>
    ELSE LET mid == (lo + hi) \div 2
             right == MulRange(m, n, mid + 1, hi, carry)
             left == MulRange(m, n, lo, mid, right[2])
         IN  <<right[1] \o left[1], left[2]>>

Reverse(l) == List([i \in 1..Len(l) |-> l[Len(l) + 1 - i]])

MulBits(m, n) ==
    LET pr == MulRange(m, n, 1, Len(m), 0)
    IN  Reverse(pr[1] \o BitsOfLsb(pr[2]))

(* x * db_size for a double x > 0 and an integer n > 0 *)
FloatMulInt(x, n) ==
    LET prod == MulBits(x[1], n)
        extra == Len(prod) - MantissaBits
        kept == SubSeq(prod, 1, MantissaBits)
        g == IF extra > 0 THEN prod[MantissaBits + 1] ELSE 0
        sticky == \E i \in (MantissaBits + 2)..Len(prod) : prod[i] = 1
    IN  RoundNearestEven(kept, x[2] + extra, g, sticky)

(* int(raw): the integer part of a positive double below 2^MantissaBits *)
RECURSIVE BitsValue(_, _)
BitsValue(m, n) == IF n <= 0 THEN 0 ELSE 2 * BitsValue(m, n - 1) + m[n]

FloatInt(x) == BitsValue(x[1], x[2])

(* raw > int(raw): some bit of the fraction is set *)
FloatHasFraction(x) ==
    \E i \in 1..Len(x[1]) : i > x[2] /\ x[1][i] = 1

(* if self.min_sup_pct <= 0: 0; else int(raw), plus one if raw > int(raw) *)
MinSupCount(pct, n) ==
    IF pct <= 0 THEN 0
    ELSE LET raw == FloatMulInt(FloatDiv(pct, 100), n)
             c == FloatInt(raw)
         IN  IF FloatHasFraction(raw) THEN c + 1 ELSE c

(* ceil(pct/100 * n) in exact arithmetic *)
CeilPct(pct, n) == (pct * n + 99) \div 100

----------------------------------------------------------------------------
(* Specification of one call of contains_with_int_constraints *)

InitContain ==
    /\ pc = "contain"
    /\ seq \in Windows
    /\ pat \in Patterns
    /\ min_gap \in 0..MaxGap
    /\ max_gap \in 0..MaxGap
    /\ win_size \in WinSizes
    /\ ret = FALSE
    /\ DB = <<>>
    /\ patterns = <<>>
    /\ sup = <<>>
    /\ timeline = <<>>
    /\ seq_len = 1
    /\ seq_step = 1
    /\ min_sup_pct = 0
    /\ db_size = 0
    /\ min_sup_count = 0
    /\ results = <<>>
    /\ F_prev = <<>>
    /\ level_k = 0
    /\ cands = <<>>
    /\ pruned = <<>>
    /\ F_prev_sorted = <<>>

Contain ==
    /\ pc = "contain"
    /\ ret' = contains_with_int_constraints(seq, pat, min_gap, max_gap, win_size)
    /\ pc' = "contained"
    /\ UNCHANGED <<seq, pat, configVars, countVars, runVars, joinVars>>

NextContain == Contain

SpecContain == InitContain /\ [][NextContain]_vars

----------------------------------------------------------------------------
(* Specification of one call of count_support_db_int *)

(* The valid gap configurations: min_gap <= max_gap *)
GapPairs == {g \in (0..MaxGap) \X (0..MaxGap) : g[1] <= g[2]}

CountPatterns == {p \in Patterns : Len(p) < MaxPatLen}
PatternLists == UNION {[1..n -> CountPatterns] : n \in 0..MaxPatterns}

InitCount ==
    /\ pc = "count"
    /\ DB \in Databases
    /\ patterns \in PatternLists
    /\ \E g \in GapPairs : min_gap = g[1] /\ max_gap = g[2]
    /\ win_size \in WinSizes
    /\ sup = <<>>
    /\ seq = <<>>
    /\ pat = <<>>
    /\ ret = FALSE
    /\ timeline = <<>>
    /\ seq_len = 1
    /\ seq_step = 1
    /\ min_sup_pct = 0
    /\ db_size = 0
    /\ min_sup_count = 0
    /\ results = <<>>
    /\ F_prev = <<>>
    /\ level_k = 0
    /\ cands = <<>>
    /\ pruned = <<>>
    /\ F_prev_sorted = <<>>

Count ==
    /\ pc = "count"
    /\ sup' = count_support_db_int(DB, patterns, min_gap, max_gap, win_size)
    /\ pc' = "counted"
    /\ UNCHANGED <<DB, patterns, configVars, containVars, runVars, joinVars>>

NextCount == Count

SpecCount == InitCount /\ [][NextCount]_vars

----------------------------------------------------------------------------
(* src/GSP.py: run, one action per stage of the level-wise driver *)

(* seen |= X for every event of the window *)
SeenItems(s) == UNION {s[i][2] : i \in 1..Len(s)}

(* A count that adds one per event holding the item *)
ItemSupportPerEvent(db, item) ==
    Cardinality(UNION {{<<w, i>> : i \in {j \in 1..Len(db[w]) : item \in db[w][j][2]}} :
                          w \in 1..Len(db)})
(* item_support[item]: the number of windows whose seen set has the item *)
ItemSupport(db, item) == Cardinality({w \in 1..Len(db) : item \in SeenItems(db[w])})

(* item_support is an insertion-ordered dict filled window by window; the  *)
(* iteration order of a window's seen set is not fixed by the language, so *)
(* every order that lists items by the first window they occur in is one    *)
(* the program can produce.                                                 *)
FirstWindow(db, item) == MinOf({w \in 1..Len(db) : item \in SeenItems(db[w])})

ItemOrders(db) ==
    LET its == UNION {SeenItems(db[w]) : w \in 1..Len(db)}
        n == Cardinality(its)
    IN  {o \in [1..n -> its] :
            /\ \A i \in 1..n : \A j \in 1..n : i # j => o[i] # o[j]
            /\ \A i \in 1..n : \A j \in 1..n :
                   i < j => FirstWindow(db, o[i]) <= FirstWindow(db, o[j])}

(* F1 = [(frozenset([item]),) for item, sup in item_support.items()        *)
(*       if sup >= min_sup_count]                                          *)
MeetsThreshold(count, threshold) == count >= threshold

F1Of(db, order, threshold) ==
    LET frequent == SelectSeq(order, LAMBDA it : MeetsThreshold(ItemSupport(db, it), threshold))
    IN  List([i \in 1..Len(frequent) |-> <<{frequent[i]}>>])

(* Fk = [p for p, sup in sup_map.items() if sup >= min_sup_count]; sup_map *)
(* is keyed in the order of Ck.                                             *)
FkOf(Ck, sup_map, threshold) ==
    SelectSeq(Dedupe(Ck), LAMBDA c : MeetsThreshold(sup_map[c], threshold))

RunItems == 1..MaxRunItem

RunTimelines == TimelinesOver(RunItems)

Pcts == {0, 50, 100}

(* The minimum support counts of the runs, tabulated once *)
(* The values __init__ accepts for min_sup_pct beyond 0..100 *)
OutsidePcts == {0 - d : d \in 1..MaxNegPct} \cup {100 + d : d \in 1..MaxOverPct}
AnyPcts == Pcts \cup OutsidePcts

RunMinSupCount == [p \in AnyPcts, n \in 1..(MaxTime + 1) |-> MinSupCount(p, n)]

(* if not self.DB: self.prepare_db(); db_size == 0 returns {};             *)
(* otherwise the minimum support count is computed.                        *)
(* A run that goes on to the level-1 scan whatever the size of DB *)
StartWithNoEarlyReturn(db) ==
    /\ DB' = db
    /\ db_size' = Len(db)
    /\ pc' = "level1"
    /\ min_sup_count' = IF Len(db) = 0 THEN 0 ELSE RunMinSupCount[min_sup_pct, Len(db)]

StartWith(db) ==
    /\ DB' = db
    /\ db_size' = Len(db)
    /\ IF Len(db) = 0
       THEN /\ pc' = "done"
            /\ min_sup_count' = min_sup_count
       ELSE /\ pc' = "level1"
            /\ min_sup_count' = RunMinSupCount[min_sup_pct, Len(db)]

RunStart ==
    /\ pc = "run"
    /\ StartWith(IF DB = <<>> THEN prepare_db(timeline, seq_len, seq_step) ELSE DB)
    /\ UNCHANGED <<timeline, seq_len, seq_step, min_sup_pct, results, F_prev, level_k>>
    /\ UNCHANGED <<configVars, containVars, patterns, sup, joinVars>>

(* The F1 scan: results[1] = {p: item_support[next(iter(p[0]))] for p in F1}, *)
(* F_prev = F1, k = 2.  A results entry is modelled by its "count" field     *)
(* (float(sup), exact for these counts); "support_pct" is not modelled.      *)
Level1With(F1) ==
    /\ F_prev' = F1
    /\ results' = <<[p \in Range(F1) |-> ItemSupport(DB, MinOf(p[1]))]>>
    /\ level_k' = 2
    /\ pc' = "levelk"

Level1 ==
    /\ pc = "level1"
    /\ \E order \in ItemOrders(DB) : Level1With(F1Of(DB, order, min_sup_count))
    /\ UNCHANGED <<DB, db_size, min_sup_count, timeline, seq_len, seq_step, min_sup_pct>>
    /\ UNCHANGED <<configVars, containVars, patterns, sup, joinVars>>

(* One pass of the loop body on F_prev = F: Ck = prune_step(join_step(F),  *)
(* set(F)), sup_map = count_support_db_int(DB, Ck, ...), Fk, and the entry *)
(* {p: sup_map[p] for p in Fk} for results[k].                             *)
LevelOf(F, db, mn, mx, win, threshold) ==
    With(prune_step(join_step(F), Range(F)), LAMBDA Ck :
        With(count_support_db_int(db, Ck, mn, mx, win), LAMBDA sup_map :
            With(FkOf(Ck, sup_map, threshold), LAMBDA Fk :
                [Ck |-> Ck, Fk |-> Fk,
                 counts |-> <<>> @@ [p \in Range(Fk) |-> sup_map[p]]])))

(* A loop that goes round again (continue) where the code leaves (break)   *)
LevelKWithContinue(lv) ==
    IF F_prev = <<>>
    THEN /\ pc' = "done"
         /\ UNCHANGED <<results, F_prev, level_k>>
    ELSE IF lv.Ck = <<>> \/ lv.Fk = <<>>
    THEN /\ pc' = "levelk"
         /\ UNCHANGED <<results, F_prev, level_k>>
    ELSE /\ results' = Append(results, lv.counts)
         /\ F_prev' = lv.Fk
         /\ level_k' = level_k + 1
         /\ pc' = "levelk"

(* A loop that leaves only on an empty candidate list and records the     *)
(* level whatever its frequent set                                         *)
LevelKWithEveryLevel(lv) ==
    IF F_prev = <<>> \/ lv.Ck = <<>>
    THEN /\ pc' = "done"
         /\ UNCHANGED <<results, F_prev, level_k>>
    ELSE /\ results' = Append(results, lv.counts)
         /\ F_prev' = lv.Fk
         /\ level_k' = level_k + 1
         /\ pc' = "levelk"

(* while F_prev: ... if not Ck: break ... if not Fk: break;                *)
(* results[k] = ...; F_prev = Fk; k += 1                                   *)
LevelKWith(lv) ==
    IF F_prev = <<>> \/ lv.Ck = <<>> \/ lv.Fk = <<>>
    THEN /\ pc' = "done"
         /\ UNCHANGED <<results, F_prev, level_k>>
    ELSE /\ results' = Append(results, lv.counts)
         /\ F_prev' = lv.Fk
         /\ level_k' = level_k + 1
         /\ pc' = "levelk"

LevelK ==
    /\ pc = "levelk"
    /\ \E lv \in {LevelOf(F_prev, DB, min_gap, max_gap, win_size, min_sup_count)} :
           LevelKWith(lv)
    /\ UNCHANGED <<DB, db_size, min_sup_count, timeline, seq_len, seq_step, min_sup_pct>>
    /\ UNCHANGED <<configVars, containVars, patterns, sup, joinVars>>

Init ==
    /\ pc = "run"
    /\ DB = <<>>
    /\ timeline \in RunTimelines
    /\ seq_len \in SeqLens
    /\ seq_step \in SeqSteps
    /\ \E g \in GapPairs : min_gap = g[1] /\ max_gap = g[2]
    /\ win_size \in WinSizes
    /\ min_sup_pct \in Pcts
    /\ db_size = 0
    /\ min_sup_count = 0
    /\ results = <<>>
    /\ F_prev = <<>>
    /\ level_k = 0
    /\ cands = <<>>
    /\ pruned = <<>>
    /\ F_prev_sorted = <<>>
    /\ seq = <<>>
    /\ pat = <<>>
    /\ ret = FALSE
    /\ patterns = <<>>
    /\ sup = <<>>

Next == RunStart \/ Level1 \/ LevelK

Spec == Init /\ [][Next]_vars

(* run() is one sequential call: each statement that can execute does      *)
(* execute, so a step of the run that is enabled is eventually taken.       *)
(* The inputs of the runs followed to their end: every timeline and every  *)
(* min_sup_pct of the run specification, under a choice of configurations  *)
LiveGaps == {<<0, MaxGap>>, <<1, 1>>}
LiveWinSizes == {None, Some(1)}
LiveLens == {1, MaxTime + 1}

InitLive ==
    /\ pc = "run"
    /\ DB = <<>>
    /\ timeline \in RunTimelines
    /\ seq_len \in LiveLens
    /\ seq_step = 1
    /\ \E g \in LiveGaps : min_gap = g[1] /\ max_gap = g[2]
    /\ win_size \in LiveWinSizes
    /\ min_sup_pct \in Pcts
    /\ db_size = 0
    /\ min_sup_count = 0
    /\ results = <<>>
    /\ F_prev = <<>>
    /\ level_k = 0
    /\ cands = <<>>
    /\ pruned = <<>>
    /\ F_prev_sorted = <<>>
    /\ seq = <<>>
    /\ pat = <<>>
    /\ ret = FALSE
    /\ patterns = <<>>
    /\ sup = <<>>

SpecLive == InitLive /\ [][Next]_vars /\ WF_vars(Next)

(* Runs under any configuration __init__ accepts: it converts its          *)
(* arguments with float() and int() and compares none of them, so max_gap  *)
(* below min_gap, a negative win_size and a min_sup_pct outside 0..100 all *)
(* reach run().                                                            *)
AnyWinSizes == WinSizes \cup {Some(0 - w) : w \in 1..MaxNegWin}

InitConfig ==
    /\ pc = "run"
    /\ DB = <<>>
    /\ timeline \in TimelinesOver(Items)
    /\ seq_len \in SeqLens
    /\ seq_step = 1
    /\ min_gap \in 0..MaxGap
    /\ max_gap \in 0..MaxGap
    /\ win_size \in AnyWinSizes
    /\ min_sup_pct \in AnyPcts
    /\ db_size = 0
    /\ min_sup_count = 0
    /\ results = <<>>
    /\ F_prev = <<>>
    /\ level_k = 0
    /\ cands = <<>>
    /\ pruned = <<>>
    /\ F_prev_sorted = <<>>
    /\ seq = <<>>
    /\ pat = <<>>
    /\ ret = FALSE
    /\ patterns = <<>>
    /\ sup = <<>>

SpecConfig == InitConfig /\ [][Next]_vars

----------------------------------------------------------------------------
(* Specification of the minimum support count alone, for larger databases *)

InitMinSup ==
    /\ pc = "minsup"
    /\ min_sup_pct \in (0 - MaxNegPct)..100
    /\ db_size \in 1..MaxDbSize
    /\ min_sup_count = 0
    /\ DB = <<>>
    /\ timeline = <<>>
    /\ seq_len = 1
    /\ seq_step = 1
    /\ min_gap = 0
    /\ max_gap = 0
    /\ win_size = None
    /\ results = <<>>
    /\ F_prev = <<>>
    /\ level_k = 0
    /\ cands = <<>>
    /\ pruned = <<>>
    /\ F_prev_sorted = <<>>
    /\ seq = <<>>
    /\ pat = <<>>
    /\ ret = FALSE
    /\ patterns = <<>>
    /\ sup = <<>>

ComputeMinSup ==
    /\ pc = "minsup"
    /\ min_sup_count' = MinSupCount(min_sup_pct, db_size)
    /\ pc' = "minsup_done"
    /\ UNCHANGED <<DB, db_size, timeline, seq_len, seq_step, min_sup_pct, results, F_prev, level_k>>
    /\ UNCHANGED <<configVars, containVars, patterns, sup, joinVars>>

NextMinSup == ComputeMinSup

SpecMinSup == InitMinSup /\ [][NextMinSup]_vars

(* Specifications of join_step and prune_step as static functions: the    *)
(* previous level is any short list of non-empty patterns, duplicates      *)
(* allowed; prune_step is also run on any short list of candidates.        *)

JoinItemsets == (SUBSET (1..MaxRunItem)) \ {{}}
JoinPatterns == UNION {[1..n -> JoinItemsets] : n \in 1..(MaxPatLen - 1)}
JoinLists == UNION {[1..n -> JoinPatterns] : n \in 0..MaxJoinList}
PrevPatterns == {p \in Patterns : Len(p) < MaxPatLen}
PrevLists == UNION {[1..n -> PrevPatterns] : n \in 0..MaxPatterns}
CandPatterns == {p \in Patterns : Len(p) >= 1 /\ Len(p) < MaxPatLen}
CandLists == UNION {[1..n -> CandPatterns] : n \in 0..MaxPatterns}

InitStatic ==
    /\ pruned = <<>>
    /\ F_prev_sorted = <<>>
    /\ seq = <<>>
    /\ pat = <<>>
    /\ ret = FALSE
    /\ min_gap = 0
    /\ max_gap = 0
    /\ win_size = None
    /\ DB = <<>>
    /\ patterns = <<>>
    /\ sup = <<>>
    /\ timeline = <<>>
    /\ seq_len = 1
    /\ seq_step = 1
    /\ min_sup_pct = 0
    /\ db_size = 0
    /\ min_sup_count = 0
    /\ results = <<>>
    /\ level_k = 0

InitJoin ==
    /\ pc = "join"
    /\ F_prev \in JoinLists
    /\ cands = <<>>
    /\ InitStatic

(* Ck = GSP.join_step(F_prev) *)
Join ==
    /\ pc = "join"
    /\ F_prev_sorted' = PySorted(F_prev)
    /\ cands' = join_step(F_prev)
    /\ pc' = "joined"
    /\ UNCHANGED <<pruned, containVars, configVars, countVars, runVars>>

(* Ck = GSP.prune_step(Ck, set(F_prev)) *)
Prune ==
    /\ pc \in {"joined", "prune"}
    /\ pruned' = prune_step(cands, Range(F_prev))
    /\ pc' = "pruned"
    /\ UNCHANGED <<cands, F_prev_sorted, containVars, configVars, countVars, runVars>>

(* prune_step applied to its own result with the same F_prev_set *)
PruneAgain ==
    /\ pc = "pruned"
    /\ cands' = pruned
    /\ pruned' = prune_step(pruned, Range(F_prev))
    /\ pc' = "repruned"
    /\ UNCHANGED <<F_prev_sorted, containVars, configVars, countVars, runVars>>

NextJoin == Join \/ Prune \/ PruneAgain

SpecJoin == InitJoin /\ [][NextJoin]_vars

InitPrune ==
    /\ pc = "prune"
    /\ F_prev \in PrevLists
    /\ cands \in CandLists
    /\ InitStatic

NextPrune == Prune \/ PruneAgain

SpecPrune == InitPrune /\ [][NextPrune]_vars

----------------------------------------------------------------------------
(* The join of a pair of patterns, followed by counting over a database:   *)
(* the inputs of the extension statements.                                 *)
PairLists == {l \in [1..2 -> CandPatterns] : l[1] # l[2]}

InitExtend ==
    /\ pc = "join"
    /\ F_prev \in PairLists
    /\ DB \in Databases
    /\ min_gap \in 0..MaxGap
    /\ max_gap \in 0..MaxGap
    /\ win_size \in WinSizes
    /\ cands = <<>>
    /\ pruned = <<>>
    /\ F_prev_sorted = <<>>
    /\ seq = <<>>
    /\ pat = <<>>
    /\ ret = FALSE
    /\ patterns = <<>>
    /\ sup = <<>>
    /\ timeline = <<>>
    /\ seq_len = 1
    /\ seq_step = 1
    /\ min_sup_pct = 0
    /\ db_size = 0
    /\ min_sup_count = 0
    /\ results = <<>>
    /\ level_k = 0

SpecExtend == InitExtend /\ [][NextJoin]_vars

----------------------------------------------------------------------------
(* src/main.py: the prompts that set the configuration handed to GSP.  A   *)
(* line typed by the user is a sequence of characters; the prompts for the *)
(* file, the columns and time_bin_seconds come first and set none of the   *)
(* values below.                                                           *)
MaxInputLen == 2    \* characters in one typed line
CliChars == {" ", "-", "0", "2", "x"}
Lines == UNION {[1..n -> CliChars] : n \in 0..MaxInputLen}

DefaultMinSupPct == 5
DefaultSeqLen == 24
DefaultSeqStep == 1
DefaultMinGap == 0
DefaultMaxGap == 1

(* str.strip(): the line without its leading and trailing blanks *)
strip(raw) ==
    LET inked == {i \in 1..Len(raw) : raw[i] # " "}
    IN  IF inked = {} THEN <<>> ELSE SubSeq(raw, MinOf(inked), MaxOf(inked))

Digits == {"0", "2"}
DigitValue(c) == IF c = "0" THEN 0 ELSE 2
IsDigits(s) == Len(s) >= 1 /\ \A i \in 1..Len(s) : s[i] \in Digits

RECURSIVE DecimalValue(_)
DecimalValue(s) ==
    IF s = <<>> THEN 0 ELSE 10 * DecimalValue(Front(s)) + DigitValue(Last(s))

(* cast(raw) for cast = int and cast = float on these characters: Some(v), *)
(* or None for ValueError                                                  *)
cast(s) ==
    IF IsDigits(s) THEN Some(DecimalValue(s))
    ELSE IF Len(s) >= 2 /\ s[1] = "-" /\ IsDigits(Tail(s)) THEN Some(0 - DecimalValue(Tail(s)))
    ELSE None

(* One turn of the loop of ask_number on the typed line: Some(v) when the  *)
(* call returns v, None when the loop goes round (continue).  predicate is *)
(* None, or Some(m) for the one predicate main.py passes, lambda x: x >= m.*)
ask_number(line, default, min_value, max_value, allow_empty, predicate) ==
    LET raw == strip(line)
        value == cast(raw)
    IN  IF raw = <<>> THEN (IF allow_empty THEN Some(default) ELSE None)
        ELSE IF value = None THEN None
        ELSE IF min_value # None /\ value[1] < min_value[1] THEN None
        ELSE IF max_value # None /\ value[1] > max_value[1] THEN None
        ELSE IF predicate # None /\ ~(value[1] >= predicate[1]) THEN None
        ELSE value

cliVars == <<min_sup_pct, seq_len, seq_step, min_gap, max_gap, win_size>>
notCliVars == <<seq, pat, ret, DB, patterns, sup, timeline, db_size, min_sup_count,
                results, F_prev, level_k, joinVars>>

AskMinSupPct ==
    /\ pc = "ask_min_sup_pct"
    /\ \E line \in Lines :
         \E a \in {ask_number(line, min_sup_pct, Some(0), Some(100), TRUE, None)} :
            IF a = None
            THEN UNCHANGED <<pc, min_sup_pct>>
            ELSE min_sup_pct' = a[1] /\ pc' = "ask_seq_len"
    /\ UNCHANGED <<seq_len, seq_step, min_gap, max_gap, win_size, notCliVars>>

AskSeqLen ==
    /\ pc = "ask_seq_len"
    /\ \E line \in Lines :
         \E a \in {ask_number(line, seq_len, Some(1), None, TRUE, None)} :
            IF a = None
            THEN UNCHANGED <<pc, seq_len>>
            ELSE seq_len' = a[1] /\ pc' = "ask_seq_step"
    /\ UNCHANGED <<min_sup_pct, seq_step, min_gap, max_gap, win_size, notCliVars>>

AskSeqStep ==
    /\ pc = "ask_seq_step"
    /\ \E line \in Lines :
         \E a \in {ask_number(line, seq_step, Some(1), None, TRUE, None)} :
            IF a = None
            THEN UNCHANGED <<pc, seq_step>>
            ELSE seq_step' = a[1] /\ pc' = "ask_min_gap"
    /\ UNCHANGED <<min_sup_pct, seq_len, min_gap, max_gap, win_size, notCliVars>>

AskMinGap ==
    /\ pc = "ask_min_gap"
    /\ \E line \in Lines :
         \E a \in {ask_number(line, min_gap, Some(0), None, TRUE, None)} :
            IF a = None
            THEN UNCHANGED <<pc, min_gap>>
            ELSE min_gap' = a[1] /\ pc' = "ask_max_gap"
    /\ UNCHANGED <<min_sup_pct, seq_len, seq_step, max_gap, win_size, notCliVars>>

(* predicate=lambda x: x >= min_gap *)
AskMaxGap ==
    /\ pc = "ask_max_gap"
    /\ \E line \in Lines :
         \E a \in {ask_number(line, max_gap, Some(0), None, TRUE, Some(min_gap))} :
            IF a = None
            THEN UNCHANGED <<pc, max_gap>>
            ELSE max_gap' = a[1] /\ pc' = "ask_win_size"
    /\ UNCHANGED <<min_sup_pct, seq_len, seq_step, min_gap, win_size, notCliVars>>

(* One turn of the loop over win_in: the value kept, or None to ask again *)
WinOf(win_in) ==
    LET w == cast(win_in)
    IN  IF w = None THEN None ELSE IF w[1] < 0 THEN None ELSE w

(* win_in = input(...).strip(): ENTER gives None, otherwise the loop *)
AskWinSize ==
    /\ pc = "ask_win_size"
    /\ \E line \in Lines :
         IF strip(line) = <<>>
         THEN win_size' = None /\ pc' = "configured"
         ELSE IF WinOf(strip(line)) = None
         THEN win_size' = win_size /\ pc' = "ask_win_size_again"
         ELSE win_size' = Some(WinOf(strip(line))[1]) /\ pc' = "configured"
    /\ UNCHANGED <<min_sup_pct, seq_len, seq_step, min_gap, max_gap, notCliVars>>

(* win_in = input("Podaj win_size ponownie: ").strip() inside the loop *)
AskWinSizeAgain ==
    /\ pc = "ask_win_size_again"
    /\ \E line \in Lines :
         IF WinOf(strip(line)) = None
         THEN UNCHANGED <<pc, win_size>>
         ELSE win_size' = Some(WinOf(strip(line))[1]) /\ pc' = "configured"
    /\ UNCHANGED <<min_sup_pct, seq_len, seq_step, min_gap, max_gap, notCliVars>>

InitCli ==
    /\ pc = "ask_min_sup_pct"
    /\ min_sup_pct = DefaultMinSupPct
    /\ seq_len = DefaultSeqLen
    /\ seq_step = DefaultSeqStep
    /\ min_gap = DefaultMinGap
    /\ max_gap = DefaultMaxGap
    /\ win_size = None
    /\ DB = <<>>
    /\ timeline = <<>>
    /\ db_size = 0
    /\ min_sup_count = 0
    /\ results = <<>>
    /\ F_prev = <<>>
    /\ level_k = 0
    /\ cands = <<>>
    /\ pruned = <<>>
    /\ F_prev_sorted = <<>>
    /\ seq = <<>>
    /\ pat = <<>>
    /\ ret = FALSE
    /\ patterns = <<>>
    /\ sup = <<>>

NextCli ==
    \/ AskMinSupPct
    \/ AskSeqLen
    \/ AskSeqStep
    \/ AskMinGap
    \/ AskMaxGap
    \/ AskWinSize
    \/ AskWinSizeAgain

SpecCli == InitCli /\ [][NextCli]_vars

(* C1: contains_with_int_constraints returns True exactly when an          *)
(* occurrence exists: strictly increasing indices, every pattern itemset a *)
(* subset of the event's itemset, every consecutive time difference within *)
(* [min_gap, max_gap], and the span within win_size when it is set; the    *)
(* empty pattern is contained.                                             *)
C1_ContainsIffOccurs ==
    pc = "contained" =>
        /\ ret = Occurs(seq, pat, min_gap, max_gap, win_size)
        /\ (pat = <<>> => ret = TRUE)

(* C1 witness: the greedy first choice fails a later gap, a later one      *)
(* succeeds, and the call returned True.                                   *)
C1_Witness ==
    /\ pc = "contained"
    /\ ret = TRUE
    /\ Len(pat) >= 2
    /\ ~contains_greedy(seq, pat, min_gap, max_gap, win_size)

(* The number of items of a pattern, the level it is mined at *)
RECURSIVE ItemCount(_)
ItemCount(p) == IF p = <<>> THEN 0 ELSE Cardinality(Head(p)) + ItemCount(Tail(p))

(* The non-empty patterns over the items of db with at most MaxRunItem items *)
PatternsOver(db) ==
    LET its == UNION {SeenItems(db[w]) : w \in 1..Len(db)}
        isets == (SUBSET its) \ {{}}
    IN  {p \in UNION {[1..n -> isets] : n \in 1..MaxRunItem} : ItemCount(p) <= MaxRunItem}

Recorded(p) == ItemCount(p) <= Len(results) /\ p \in DOMAIN results[ItemCount(p)]

(* C2: threshold correctness of a finished run with min_sup_pct > 0: a     *)
(* non-empty pattern over the items of the database is in the frequent set *)
(* of its level exactly when the number of windows containing it is at     *)
(* least ceil(min_sup_pct/100 * |DB|).                                     *)
C2_ThresholdCorrectness ==
    (pc = "done" /\ min_sup_pct > 0) =>
        \A p \in PatternsOver(DB) :
            Recorded(p) <=>
                support_count(DB, p, min_gap, max_gap, win_size)
                    >= CeilPct(min_sup_pct, Len(DB))

(* The sub-patterns of the anti-monotonicity statements: one single-item   *)
(* itemset removed, or one item removed from a multi-item itemset.         *)
SubPatterns(p) ==
    {RemoveAt(p, i) : i \in {j \in 1..Len(p) : Cardinality(p[j]) = 1}}
        \cup UNION {{[p EXCEPT ![i] = @ \ {x}] : x \in p[i]} :
                        i \in {j \in 1..Len(p) : Cardinality(p[j]) > 1}}

(* C3: anti-monotonicity of support, here on the databases of one window:  *)
(* under any gap and window configuration, for every pattern p and every   *)
(* sub-pattern q of p, support_count(p) <= support_count(q).               *)
C3_SupportAntiMonotone ==
    pc = "contained" =>
        \A q \in SubPatterns(pat) :
            support_count(<<seq>>, pat, min_gap, max_gap, win_size)
                <= support_count(<<seq>>, q, min_gap, max_gap, win_size)

(* C4: count_support_db_int returns a map with one entry per input        *)
(* pattern, whose value is the number of windows w of DB for which         *)
(* contains_with_int_constraints(w, p, min_gap, max_gap, win_size) is True. *)
C4_SupportConsistency ==
    pc = "counted" =>
        /\ DOMAIN sup = Range(patterns)
        /\ \A p \in Range(patterns) :
               sup[p] = support_count(DB, p, min_gap, max_gap, win_size)

(* C5: for every list of candidate patterns, duplicates allowed, a count   *)
(* is incremented at most once per window: 0 <= sup[p] <= len(DB).          *)
C5_CountWithinDbSize ==
    pc = "counted" =>
        \A p \in Range(patterns) : 0 <= sup[p] /\ sup[p] <= Len(DB)

(* The index pairs at which a two-itemset pattern matches by itemsets alone *)
PairMatches == {f \in IndexTuples(Len(seq), 2) : IsMatch(seq, pat, f)}
OnlyDiff == LET f == CHOOSE g \in PairMatches : TRUE IN seq[f[2]][1] - seq[f[1]][1]

(* C6: gap boundary.  For a two-itemset pattern whose only possible match  *)
(* has time difference d, under a valid gap configuration and a window     *)
(* bound that does not exclude the match, the call returns True when       *)
(* d = min_gap or d = max_gap; it returns False when d = min_gap - 1 or    *)
(* d = max_gap + 1.                                                        *)
C6_GapBoundary ==
    (pc = "contained" /\ Len(pat) = 2 /\ Cardinality(PairMatches) = 1) =>
        /\ ( /\ min_gap <= max_gap
             /\ OnlyDiff = min_gap \/ OnlyDiff = max_gap
             /\ win_size # None => OnlyDiff <= win_size[1] ) => ret = TRUE
        /\ (OnlyDiff = min_gap - 1 \/ OnlyDiff = max_gap + 1) => ret = FALSE

(* C6 witness: the only match sits exactly on max_gap, above min_gap, and  *)
(* the call returned True.                                                 *)
C6_Witness ==
    /\ pc = "contained"
    /\ Len(pat) = 2
    /\ Cardinality(PairMatches) = 1
    /\ min_gap < max_gap
    /\ OnlyDiff = max_gap
    /\ ret = TRUE

(* The time span of the whole window *)
TotalSpan(s) == IF s = <<>> THEN 0 ELSE s[Len(s)][1] - s[1][1]

(* C7: window boundary.  With win_size set, a gap-valid match of span      *)
(* exactly win_size is accepted, and when every gap-valid match has span   *)
(* win_size + 1 the call returns False; with win_size = None the result is *)
(* the one for any win_size at or above the window's total time span.      *)
C7_WindowBoundary ==
    pc = "contained" =>
        /\ win_size # None =>
              /\ (\E f \in Occurrences(seq, pat, min_gap, max_gap) :
                      Span(seq, pat, f) = win_size[1]) => ret = TRUE
              /\ ( /\ Occurrences(seq, pat, min_gap, max_gap) # {}
                   /\ \A f \in Occurrences(seq, pat, min_gap, max_gap) :
                          Span(seq, pat, f) = win_size[1] + 1 ) => ret = FALSE
        /\ win_size = None =>
              \A w \in TotalSpan(seq)..(MaxTime + 1) :
                  ret = contains_with_int_constraints(seq, pat, min_gap, max_gap, Some(w))

(* C7 witness: win_size is set, a gap-valid match spans exactly win_size,  *)
(* no gap-valid match is shorter, and the call returned True.              *)
C7_Witness ==
    /\ pc = "contained"
    /\ win_size # None
    /\ Len(pat) >= 2
    /\ \E f \in Occurrences(seq, pat, min_gap, max_gap) : Span(seq, pat, f) = win_size[1]
    /\ \A f \in Occurrences(seq, pat, min_gap, max_gap) : Span(seq, pat, f) >= win_size[1]
    /\ ret = TRUE

(* C8: anti-monotonicity of the output: for every recorded level k >= 2    *)
(* and every pattern p of results[k], every pattern obtained from p by     *)
(* removing one single-item itemset or one item of a multi-item itemset is *)
(* a key of results[k-1].                                                  *)
C8_OutputAntiMonotone ==
    \A k \in 2..Len(results) :
        \A p \in DOMAIN results[k] : SubPatterns(p) \subseteq DOMAIN results[k - 1]

(* C8 witness: a finished run that recorded a level-3 pattern of three     *)
(* itemsets, whose middle itemset is one of the removals.                  *)
C8_Witness ==
    /\ pc = "done"
    /\ Len(results) >= 3
    /\ \E p \in DOMAIN results[3] : Len(p) = 3

(* C9: with min_sup_pct <= 0 the threshold is 0 and every pattern recorded *)
(* at any level has count >= 1.                                            *)
C9_ZeroThresholdNonzeroCounts ==
    (pc \in {"level1", "levelk", "done"} /\ min_sup_pct <= 0) =>
        /\ min_sup_count = 0
        /\ \A k \in 1..Len(results) : \A p \in DOMAIN results[k] : results[k][p] >= 1

(* C10: for n >= 1 windows run uses min_sup_count = ceil(p/100 * n) when  *)
(* 0 < p <= 100, exactly p*n/100 when p*n is a multiple of 100, and 0 when *)
(* p <= 0.                                                                 *)
C10_MinSupCountIsCeiling ==
    pc = "minsup_done" =>
        min_sup_count = IF min_sup_pct <= 0 THEN 0 ELSE CeilPct(min_sup_pct, db_size)

(* The items of the database and the windows an item occurs in *)
DbItems == UNION {UNION {DB[w][i][2] : i \in 1..Len(DB[w])} : w \in 1..Len(DB)}
WindowCount(x) == Cardinality({w \in 1..Len(DB) : \E i \in 1..Len(DB[w]) : x \in DB[w][i][2]})

(* C11: level 1.  The count recorded in results[1] for an item is the      *)
(* number of windows in which the item occurs in at least one event, and   *)
(* results[1] holds exactly the single-item patterns of the items whose    *)
(* window count is >= min_sup_count.                                       *)
C11_LevelOne ==
    Len(results) >= 1 =>
        /\ DOMAIN results[1] = {<<{x}>> : x \in {y \in DbItems : WindowCount(y) >= min_sup_count}}
        /\ \A x \in DbItems :
               <<{x}>> \in DOMAIN results[1] => results[1][<<{x}>>] = WindowCount(x)

(* C11 witness: a recorded item occurs in two events of one window, and    *)
(* another item of the database is below the threshold.                    *)
C11_Witness ==
    /\ Len(results) >= 1
    /\ \E x \in DbItems :
          /\ <<{x}>> \in DOMAIN results[1]
          /\ \E w \in 1..Len(DB) :
                 Cardinality({i \in 1..Len(DB[w]) : x \in DB[w][i][2]}) >= 2
    /\ \E y \in DbItems : <<{y}>> \notin DOMAIN results[1]

(* The candidates of the join, as a set: the S-step and I-step results of *)
(* every ordered pair a # b of F.                                         *)
JoinSetOf(Fset) ==
    LET pairs == {ab \in Fset \X Fset : ab[1] # ab[2]}
        S == {ab[1] \o <<Last(ab[2])>> : ab \in {q \in pairs : Tail(q[1]) = Front(q[2])}}
        I == UNION {{Front(ab[1]) \o <<Last(ab[1]) \cup {x}>> :
                        x \in {y \in Last(ab[2]) :
                                 /\ Last(ab[2]) = {y}
                                 /\ y \notin Last(ab[1])
                                 /\ \A z \in Last(ab[1]) : y > z}} :
                    ab \in {q \in pairs : Front(q[1]) = Front(q[2])}}
    IN  S \cup I

JoinSet(F) == JoinSetOf(Range(F))

NoDuplicates(l) == \A i \in 1..Len(l) : \A j \in 1..Len(l) : l[i] = l[j] => i = j

(* C12: join_step(F_prev) returns exactly, without duplicates, the S-step  *)
(* candidates a + (b[-1],) of the ordered pairs a # b with a[1:] = b[:-1]  *)
(* and the I-step candidates a[:-1] + (a[-1] | {x},) of the ordered pairs  *)
(* a # b with a[:-1] = b[:-1], b[-1] = {x}, x not in a[-1] and x above     *)
(* every item of a[-1]; both rules may fire for a pair; nothing else.      *)
C12_JoinExact ==
    pc = "joined" =>
        /\ Range(cands) = JoinSet(F_prev)
        /\ NoDuplicates(cands)

(* C12 witness: the previous level lists a pattern twice, some pair fires  *)
(* both rules, and the join returned candidates.                           *)
C12_Witness ==
    /\ pc = "joined"
    /\ ~NoDuplicates(F_prev)
    /\ \E i \in 1..Len(F_prev) : \E j \in 1..Len(F_prev) :
          /\ F_prev[i] # F_prev[j]
          /\ SStep(F_prev[i], F_prev[j]) # <<>>
          /\ IStep(F_prev[i], F_prev[j]) # <<>>
    /\ cands # <<>>

(* The previous level is two distinct single-item patterns *)
TwoSingles ==
    /\ Len(F_prev) = 2
    /\ F_prev[1] # F_prev[2]
    /\ \A i \in 1..2 : Len(F_prev[i]) = 1 /\ Cardinality(F_prev[i][1]) = 1

(* C13: for two distinct single-item patterns <{A}> and <{B}>, A < B,      *)
(* join_step yields exactly <{A},{B}>, <{B},{A}> and <{A,B}>, and          *)
(* prune_step against that same previous level keeps all three.            *)
C13_TwoItemsJoinPrune ==
    (TwoSingles /\ pc \in {"joined", "pruned"}) =>
        LET A == MinOf(F_prev[1][1] \cup F_prev[2][1])
            B == MaxOf(F_prev[1][1] \cup F_prev[2][1])
        IN  /\ Len(cands) = 3
            /\ Range(cands) = {<<{A}, {B}>>, <<{B}, {A}>>, <<{A, B}>>}
            /\ pc = "pruned" => pruned = cands

(* C13 witness: the two patterns were given in descending item order and   *)
(* three candidates survived the pruning.                                  *)
C13_Witness ==
    /\ TwoSingles
    /\ pc = "pruned"
    /\ MinOf(F_prev[1][1]) > MinOf(F_prev[2][1])
    /\ Len(pruned) = 3

(* C14: prune_step(Ck, F_prev_set) returns, in input order, exactly the    *)
(* candidates c of Ck for which every pattern obtained by removing one     *)
(* single-item itemset, or one item of a multi-item itemset, is in         *)
(* F_prev_set; applying it again with the same F_prev_set changes nothing. *)
C14_PruneExact ==
    /\ pc = "pruned" =>
          pruned = SelectSeq(cands, LAMBDA c : SubPatterns(c) \subseteq Range(F_prev))
    /\ pc = "repruned" => pruned = cands

(* C14 witness: of two different candidates the first was dropped and the  *)
(* second, which has a multi-item itemset, was kept.                       *)
C14_Witness ==
    /\ pc = "pruned"
    /\ Len(cands) = 2
    /\ cands[1] # cands[2]
    /\ pruned = <<cands[2]>>
    /\ \E i \in 1..Len(cands[2]) : Cardinality(cands[2][i]) > 1

(* C15: support is non-increasing under extension: for every candidate c  *)
(* that join_step builds from a pair (a, b), by S-step or by I-step, and   *)
(* every database and gap/window configuration,                            *)
(* support_count(c) <= support_count(a) and <= support_count(b).           *)
C15_ExtensionMonotone ==
    pc = "joined" =>
        \A i \in 1..Len(cands) : \A a \in Range(F_prev) : \A b \in Range(F_prev) :
            cands[i] \in Range(PairCands(a, b)) =>
                /\ support_count(DB, cands[i], min_gap, max_gap, win_size)
                       <= support_count(DB, a, min_gap, max_gap, win_size)
                /\ support_count(DB, cands[i], min_gap, max_gap, win_size)
                       <= support_count(DB, b, min_gap, max_gap, win_size)

(* C15 witness: a joined candidate of three itemsets occurs in the         *)
(* database, in fewer windows than one of the patterns it was built from.  *)
C15_Witness ==
    /\ pc = "joined"
    /\ \E i \in 1..Len(cands) :
          /\ Len(cands[i]) = 3
          /\ support_count(DB, cands[i], min_gap, max_gap, win_size) >= 1
          /\ \E a \in Range(F_prev) :
                 support_count(DB, cands[i], min_gap, max_gap, win_size)
                     < support_count(DB, a, min_gap, max_gap, win_size)

(* The candidates left by pruning the join of a frequent set against it *)
PrunedSetOf(Fset) == {c \in JoinSetOf(Fset) : SubPatterns(c) \subseteq Fset}

(* C16: the level-wise driver.  While the loop runs at level k the levels  *)
(* 1..k-1 are the recorded ones and the join reads the frequent set        *)
(* recorded for level k-1; every recorded level k >= 2 is non-empty and    *)
(* made of pruned candidates of level k-1; the run is done at the first    *)
(* level whose pruned candidate list or frequent set is empty, and that    *)
(* level is not recorded.                                                  *)
C16_LevelWiseDriver ==
    /\ pc = "levelk" => Len(results) = level_k - 1
    /\ (pc \in {"levelk", "done"} /\ DB # <<>>) =>
           Range(F_prev) = DOMAIN results[Len(results)]
    /\ \A k \in 2..Len(results) :
           /\ DOMAIN results[k] # {}
           /\ DOMAIN results[k] \subseteq PrunedSetOf(DOMAIN results[k - 1])
    /\ (pc = "done" /\ DB # <<>>) =>
           {c \in PrunedSetOf(DOMAIN results[Len(results)]) :
               support_count(DB, c, min_gap, max_gap, win_size) >= min_sup_count} = {}

(* C16 witness: a run recorded the levels 1, 2 and 3 and then stopped at   *)
(* level 4 without recording it.                                           *)
C16_Witness ==
    /\ pc = "done"
    /\ Len(results) = 3
    /\ level_k = 4

(* C17: for every database and every configuration, min_sup_pct = 0        *)
(* included, the level loop eventually leaves and run() returns.           *)
C17_Terminates == <>(pc = "done")

(* C17 witness: a run with min_sup_pct = 0 went through the level loop,    *)
(* recorded a level beyond the first, and returned.                        *)
C17_Witness ==
    /\ pc = "done"
    /\ min_sup_pct = 0
    /\ Len(results) >= 2
    /\ \E p \in DOMAIN results[Len(results)] : results[Len(results)][p] = 0

(* C18: when the database is non-empty and no item reaches the threshold   *)
(* at level 1, the run returns the empty result, with no level recorded,   *)
(* as it does for an empty database.                                       *)
C18_NoFrequentItemEmptyResult ==
    (/\ pc = "done"
     /\ DB # <<>>
     /\ \A x \in DbItems : WindowCount(x) < min_sup_count) => results = <<>>

(* C19: when the window database is empty at the start of mining, the run  *)
(* returns the empty result and neither the level-1 scan nor any level of  *)
(* join, prune and count is executed.                                      *)
C19_EmptyDatabase ==
    (pc # "run" /\ DB = <<>>) =>
        /\ pc = "done"
        /\ results = <<>>
        /\ F_prev = <<>>
        /\ level_k = 0

(* C19 witness: a run over a table without rows has returned. *)
C19_Witness ==
    /\ pc = "done"
    /\ timeline = <<>>
    /\ DB = <<>>
    /\ db_size = 0
    /\ results = <<>>

InvalidConfig ==
    \/ max_gap < min_gap
    \/ win_size # None /\ win_size[1] < 0
    \/ min_sup_pct < 0
    \/ min_sup_pct > 100

(* C20: under an invalid configuration (max_gap < min_gap, negative        *)
(* win_size, min_sup_pct outside 0..100) no mining is performed: the run   *)
(* never reaches the level-1 scan or the level loop and records nothing.   *)
C20_InvalidConfigNotMined ==
    InvalidConfig => (pc \notin {"level1", "levelk"} /\ results = <<>>)

(* Every listing of the patterns of l, in any order *)
Orderings(l) ==
    {List([i \in 1..Len(l) |-> l[f[i]]]) :
        f \in {g \in [1..Len(l) -> 1..Len(l)] : Range(g) = 1..Len(l)}}

(* C21: the order by which join_step sorts F_prev is total: of two         *)
(* distinct patterns exactly one precedes the other, so sorted(F_prev) is  *)
(* the same list for every order in which F_prev is supplied.              *)
C21_SortIsTotalOrder ==
    pc = "joined" =>
        /\ \A a \in Range(F_prev) : \A b \in Range(F_prev) :
               a # b => (PatternLT(a, b) # PatternLT(b, a))
        /\ \A G \in Orderings(F_prev) : PySorted(G) = F_prev_sorted

(* C22: join_step followed by prune_step is deterministic and keeps no     *)
(* state: run again on the same frequent level it yields the same          *)
(* candidate set, and the set is the same for every order in which the     *)
(* patterns of the level are listed.                                       *)
C22_GeneratePruneDeterministic ==
    pc = "pruned" =>
        /\ Range(prune_step(join_step(F_prev), Range(F_prev))) = Range(pruned)
        /\ \A G \in Orderings(F_prev) :
               Range(prune_step(join_step(G), Range(G))) = Range(pruned)

(* C22 witness: a level whose patterns sort differently when listed in     *)
(* another order, and whose join in that order is another list, has been   *)
(* joined and pruned to a non-empty candidate list.                        *)
C22_Witness ==
    /\ pc = "pruned"
    /\ pruned # <<>>
    /\ \E G \in Orderings(F_prev) :
          /\ PySorted(G) # F_prev_sorted
          /\ join_step(G) # cands

(* The support map of the loops without the pre-filter:                    *)
(*   for seq in DB: for p in patterns: if contains(...): sup[p] += 1       *)
CountEveryPair(db, ps, mn, mx, win) ==
    [p \in Range(ps) |->
        Cardinality({wi \in (1..Len(db)) \X (1..Len(ps)) :
                        /\ ps[wi[2]] = p
                        /\ contains_with_int_constraints(db[wi[1]], p, mn, mx, win)})]

(* C23: the first-itemset pre-filter of count_support_db_int is a pure     *)
(* optimisation: for a list of non-empty patterns the support map equals   *)
(* the one of the containment engine called on every (window, pattern)     *)
(* pair, and a pattern skipped for a window does not match that window.    *)
C23_PrefilterIsOptimisation ==
    (pc = "counted" /\ \A i \in 1..Len(patterns) : patterns[i] # <<>>) =>
        /\ sup = CountEveryPair(DB, patterns, min_gap, max_gap, win_size)
        /\ \A w \in 1..Len(DB) : \A q \in Range(patterns) :
               ~AnyEventHas(DB[w], q[1]) =>
                   ~contains_with_int_constraints(DB[w], q, min_gap, max_gap, win_size)

(* C23 witness: a count over non-empty patterns in which the pre-filter    *)
(* skipped a key for one window and a pattern was counted in another.      *)
C23_Witness ==
    /\ pc = "counted"
    /\ Len(patterns) >= 2
    /\ \A i \in 1..Len(patterns) : patterns[i] # <<>>
    /\ \E w \in 1..Len(DB) : \E q \in Range(patterns) :
          /\ ~AnyEventHas(DB[w], q[1])
          /\ sup[q] >= 1

(* C24: whatever the user types, ENTER for a default included, the        *)
(* configuration handed to GSP satisfies the preconditions of the miner:   *)
(* min_sup_pct in 0..100, min_gap >= 0, max_gap >= min_gap, win_size       *)
(* absent or >= 0, seq_len and seq_step >= 1.                              *)
C24_CliConfigValid ==
    pc = "configured" =>
        /\ 0 <= min_sup_pct /\ min_sup_pct <= 100
        /\ seq_len >= 1 /\ seq_step >= 1
        /\ min_gap >= 0
        /\ max_gap >= min_gap
        /\ win_size # None => win_size[1] >= 0

(* C25: no pattern recorded by a run has the same item in two different    *)
(* itemsets.                                                               *)
C25_NoItemInTwoItemsets ==
    \A k \in 1..Len(results) :
        \A p \in DOMAIN results[k] :
            \A i \in 1..Len(p) : \A j \in 1..Len(p) :
                i # j => p[i] \cap p[j] = {}

(* C25 witness: a finished run that recorded a pattern of two itemsets     *)
(* over a database in which one window has the same item in two events.    *)
C25_Witness ==
    /\ pc = "done"
    /\ Len(results) >= 2
    /\ \E p \in DOMAIN results[2] : Len(p) = 2
    /\ \E w \in 1..Len(DB) : \E i \in 1..Len(DB[w]) : \E j \in 1..Len(DB[w]) :
           i < j /\ DB[w][i][2] \cap DB[w][j][2] # {}

(* C26: every pattern recorded at level k has exactly k items in total.    *)
C26_LevelIsItemCount ==
    \A k \in 1..Len(results) :
        \A p \in DOMAIN results[k] : ItemCount(p) = k

(* C26 witness: a finished run that recorded level 3 although the join of  *)
(* its level 2 held a candidate whose item count is not 3.                 *)
C26_Witness ==
    /\ pc = "done"
    /\ Len(results) >= 3
    /\ DOMAIN results[3] # {}
    /\ \E c \in JoinSetOf(DOMAIN results[2]) : ItemCount(c) # 3

(* C27: every itemset of a recorded pattern but the last has one item, and *)
(* the last has at most two.                                               *)
C27_SinglesThenAtMostTwo ==
    \A k \in 1..Len(results) :
        \A p \in DOMAIN results[k] :
            /\ \A i \in 1..(Len(p) - 1) : Cardinality(p[i]) = 1
            /\ Cardinality(Last(p)) <= 2

(* C27 witness: a finished run that recorded a level-3 pattern ending in a *)
(* two-item itemset, over a database in which one window has an event of   *)
(* two or more items followed by a later event.                            *)
C27_Witness ==
    /\ pc = "done"
    /\ Len(results) >= 3
    /\ \E p \in DOMAIN results[3] : Len(p) = 2 /\ Cardinality(p[2]) = 2
    /\ \E w \in 1..Len(DB) : \E i \in 1..Len(DB[w]) : \E j \in 1..Len(DB[w]) :
           i < j /\ Cardinality(DB[w][i][2]) >= 2

====
